---- MODULE Spec2Model ----
(***************************************************************************)
(* The session client of the health dashboard front end                    *)
(* (frontend/src/services/authService.ts): the axios instance apiClient    *)
(* with its request and response interceptors, and the operations of       *)
(* authService.  Durable storage is window.localStorage, shared by every   *)
(* call in flight.  A handler runs to completion (one JavaScript task and  *)
(* its microtasks), so every action below is one handler; calls interleave *)
(* only at their awaits.  Assigning window.location.href is recorded; the  *)
(* page load that follows it is not modelled.  The components that read    *)
(* state.auth (ProtectedRoute, App, Sidebar's hasPermission) are functions *)
(* of the store and their props; SpecUI renders them in every AuthState.   *)
(* SpecTwice is a caller that restores the session twice in succession.    *)
(* SpecNav follows the redirects App returns, SpecDashboard is the         *)
(* dashboard slice with its fetches in flight, and SpecScript is a run of  *)
(* guaranteed-solution.sh under set -e.                                    *)
(* Definitions named as a variant of another (e.g.                         *)
(* ShouldRefreshIgnoringRetry) are faulty versions of it, used to test     *)
(* that a property depends on the code.                                    *)
(***************************************************************************)
EXTENDS Naturals, FiniteSets, Sequences, Bags, TLC

(* ---------------------------------------------------------------------- *)
(* Bounds                                                                  *)
(* ---------------------------------------------------------------------- *)
\* Calls that can be in flight at once.
MaxCalls == 2
\* Cap on the dispatches of one request (the code itself stops at two).
MaxDispatch == 3
\* Cap on the redirects followed in one navigation.
MaxRedirects == 4
\* fetchDashboardData thunks that can be in flight at once.
MaxFetches == 4

(* ---------------------------------------------------------------------- *)
(* Values                                                                  *)
(* ---------------------------------------------------------------------- *)
\* JavaScript null (localStorage.getItem of an absent key), undefined (a
\* missing property) and the strings String() makes of them.
Null == "<null>"
Undefined == "<undefined>"
\* Access tokens and refresh tokens the server can issue.
AccessTokens == {"a1", "a2"}
RefreshTokens == {"r1", "r2"}
\* No Authorization header on the request.
NoHeader == "<none>"
\* Response statuses: 2xx, 401, any other error status, no response at all.
Statuses == {"200", "401", "500", "network"}

\* String(v), as localStorage.setItem applies it to the value it is given.
StringOf(v) == IF v = Undefined THEN "undefined" ELSE IF v = Null THEN "null" ELSE v

\* JavaScript truthiness of a string, null or undefined.
Truthy(v) == v \notin {Null, Undefined, ""}

\* data.k of a response body: undefined when the body has no such property.
Field(data, k) == IF k \in DOMAIN data THEN data[k] ELSE Undefined

getItem(store, k) == store[k]
setItem(store, k, v) == [store EXCEPT ![k] = StringOf(v)]
removeItem(store, k) == [store EXCEPT ![k] = Null]

EmptyStorage == [token |-> Null, refreshToken |-> Null]

VARIABLES
    storage,          \* localStorage: the items 'token' and 'refreshToken'
    href,             \* window.location.href
    isAuthenticated,  \* state.auth.isAuthenticated of the store
    calls,            \* the calls of authService in flight (a bag: calls are alike)
    event,            \* what the handler that ran last did
    held,             \* what a caller of checkAuthStatus keeps of its first call
    isLoading,        \* state.auth.isLoading of the store
    user,             \* state.auth.user of the store: null, or the user's role
    view,             \* what the component that rendered last returned
    trail,            \* the locations of the navigation under way, in order
    dashboard,        \* state.dashboard of the store
    fetches,          \* the fetchDashboardData thunks in flight
    script            \* the run of guaranteed-solution.sh

\* The variables of the session client, of a caller that restores the session
\* twice, and of the components that read the store.
clientVars == <<storage, href, calls, event>>
uiVars == <<isLoading, user, view>>
\* The variables of a navigation, of the dashboard slice and of the script.
otherVars == <<trail, dashboard, fetches, script>>
vars == <<storage, href, isAuthenticated, calls, event, held, isLoading, user, view,
          trail, dashboard, fetches, script>>

(* ---------------------------------------------------------------------- *)
(* The API client                                                          *)
(* ---------------------------------------------------------------------- *)
\* Request interceptor: the Authorization header a request leaves with,
\* given the header it came with.
RequestInterceptorKeepingHeader(header, store) == header
RequestInterceptor(header, store) ==
    LET token == getItem(store, "token")
    IN  IF Truthy(token) THEN token ELSE header

\* Response interceptor, the condition for the refresh-and-retry branch.
ShouldRefreshIgnoringRetry(status, retry) == status = "401"
ShouldRefresh(status, retry) == status = "401" /\ ~retry

\* Response interceptor, a successful refresh: the new access token is
\* stored, put on the original request, and the request goes through
\* apiClient (and so through the request interceptor) again.
RefreshedStorageNotStored(store, data) == store
RefreshedStorage(store, data) == setItem(store, "token", Field(data, "token"))

RetryHeader(store, data) == RequestInterceptor(Field(data, "token"), store)

\* Response interceptor, the catch block of a failed refresh.
RefreshFailedStorageTokenOnly(store) == removeItem(store, "token")
RefreshFailedStorage(store) == removeItem(removeItem(store, "token"), "refreshToken")

(* ---------------------------------------------------------------------- *)
(* authService                                                             *)
(* ---------------------------------------------------------------------- *)
\* login, after the response: both items are written from response.data.
LoginStorage(store, data) ==
    setItem(setItem(store, "token", Field(data, "token")),
            "refreshToken", Field(data, "refreshToken"))
LoginResult(data) ==
    [token |-> Field(data, "token"), refreshToken |-> Field(data, "refreshToken")]

\* logout, the finally block: runs whatever the outcome of the call.
LogoutStorageOnSuccessOnly(store, outcome) ==
    IF outcome = "ok" THEN removeItem(removeItem(store, "token"), "refreshToken") ELSE store
LogoutStorage(store, outcome) == removeItem(removeItem(store, "token"), "refreshToken")

\* checkAuthStatus, after the response.
CheckAuthResult(store, data) ==
    [token |-> Field(data, "token"),
     refreshToken |-> IF Truthy(getItem(store, "refreshToken"))
                      THEN getItem(store, "refreshToken") ELSE ""]

\* refreshToken, after the response.
RefreshTokenStorageRotating(store, data) ==
    setItem(setItem(store, "token", Field(data, "token")),
            "refreshToken", Field(data, "refresh_token"))
RefreshTokenStorage(store, data) == setItem(store, "token", Field(data, "token"))
RefreshTokenResult(rt, data) == [token |-> Field(data, "token"), refreshToken |-> rt]

NoResult == [token |-> Undefined, refreshToken |-> Undefined]
NoData == [none |-> TRUE]

(* ---------------------------------------------------------------------- *)
(* The store's thunks around authService (store/slices/authSlice)          *)
(* ---------------------------------------------------------------------- *)
\* Session restore asks who-am-I only when an access token is stored.
HasStoredTokenAlways(store) == TRUE
HasStoredToken(store) == Truthy(getItem(store, "token"))

\* The session flag after a call of authService settles.
SessionAfter(op, outcome, cur) ==
    CASE op = "login" -> (outcome = "ok")
      [] op = "logout" -> FALSE
      [] op = "checkAuthStatus" -> (outcome = "ok")
      [] OTHER -> cur

\* Storage after the thunk has seen the call settle: a failed restore clears it.
ThunkStorageKept(op, outcome, store) == store
ThunkStorage(op, outcome, store) ==
    IF op = "checkAuthStatus" /\ outcome = "fail" THEN EmptyStorage ELSE store

(* ---------------------------------------------------------------------- *)
(* The server                                                              *)
(* ---------------------------------------------------------------------- *)
\* Bodies of successful responses.  /auth/login answers in the documented
\* shape {user, token, refresh_token} or in the shape of the client's
\* LoginResponse type {user, token, refreshToken}.
LoginBodies ==
    [shape : {"documented"}, token : AccessTokens, refresh_token : RefreshTokens]
    \cup [shape : {"LoginResponse"}, token : AccessTokens, refreshToken : RefreshTokens]
TokenBodies == [token : AccessTokens]
OkBodies(op) ==
    CASE op = "login" -> LoginBodies
      [] op = "checkAuthStatus" -> TokenBodies
      [] OTHER -> {NoData}

\* /auth/refresh issues a token only for a refresh token the server issued.
RefreshAccepts(rt) == rt \in RefreshTokens

(* ---------------------------------------------------------------------- *)
(* Roles and permissions (types/auth.ts)                                   *)
(* ---------------------------------------------------------------------- *)
\* enum UserRole.
UserRoles == {"management", "devops", "qa", "dev", "other"}

\* A role the server can send that the enum does not have: the type of
\* user.role is not checked when the response is parsed.
UnmappedRoles == {"guest"}

\* state.auth.user: null, or a user, of whom only the role matters here.
Users == {Null} \cup UserRoles \cup UnmappedRoles

\* const RolePermissions: Record<UserRole, string[]>.
RolePermissionsOtherReadsSettings ==
    [management |-> {"dashboard:read", "system-health:read", "performance:read",
                     "alerts:read", "alerts:write", "users:read", "users:write",
                     "settings:read", "settings:write"},
     devops |-> {"dashboard:read", "system-health:read", "performance:read",
                 "alerts:read", "alerts:write", "settings:read"},
     qa |-> {"dashboard:read", "system-health:read", "performance:read",
             "settings:read"},
     dev |-> {"dashboard:read", "system-health:read", "performance:read",
              "settings:read"},
     other |-> {"dashboard:read", "system-health:read", "settings:read"}]
RolePermissions ==
    [management |-> {"dashboard:read", "system-health:read", "performance:read",
                     "alerts:read", "alerts:write", "users:read", "users:write",
                     "settings:read", "settings:write"},
     devops |-> {"dashboard:read", "system-health:read", "performance:read",
                 "alerts:read", "alerts:write", "settings:read"},
     qa |-> {"dashboard:read", "system-health:read", "performance:read",
             "settings:read"},
     dev |-> {"dashboard:read", "system-health:read", "performance:read",
              "settings:read"},
     other |-> {"dashboard:read", "system-health:read"}]

\* The permissions a caller can ask about: those of the table and one more.
Permissions == (UNION {RolePermissions[r] : r \in DOMAIN RolePermissions})
                   \cup {"users:delete"}

\* The table "User Roles & Permissions" of the project summary: what each
\* role is given on each page (a cross stands for denied).  A row of it:
Row(onDashboard, onSystemHealth, onPerformance, onAlerts, onUsers, onSettings) ==
    ("dashboard" :> onDashboard) @@ ("system-health" :> onSystemHealth)
        @@ ("performance" :> onPerformance) @@ ("alerts" :> onAlerts)
        @@ ("users" :> onUsers) @@ ("settings" :> onSettings)

DocumentedAccess ==
    [management |-> Row("Full", "Full", "Full", "Full", "Full", "Full"),
     devops |-> Row("Read", "Full", "Full", "Full", "denied", "Read"),
     qa |-> Row("Read", "Read", "Read", "denied", "denied", "Read"),
     dev |-> Row("Read", "Read", "Read", "denied", "denied", "Read"),
     other |-> Row("Read", "Read", "denied", "denied", "denied", "denied")]

\* const menuItems of Sidebar: the page of each item (its path without the
\* leading slash) and the permission that shows it.
menuItems ==
    {[path |-> "dashboard", permission |-> "dashboard:read"],
     [path |-> "system-health", permission |-> "system-health:read"],
     [path |-> "performance", permission |-> "performance:read"],
     [path |-> "alerts", permission |-> "alerts:read"],
     [path |-> "users", permission |-> "users:read"],
     [path |-> "settings", permission |-> "settings:read"]}

\* The menu item of a permission, where there is one.
ItemOf(permission) == CHOOSE item \in menuItems : item.permission = permission

(* ---------------------------------------------------------------------- *)
(* Sidebar: hasPermission                                                  *)
(* ---------------------------------------------------------------------- *)
\* RolePermissions[user.role].includes(permission): reading a key the table
\* does not have gives undefined, and .includes of undefined throws.
hasPermissionOfNoUser(usr, permission) ==
    IF ~Truthy(usr) THEN "true"
    ELSE IF usr \notin DOMAIN RolePermissions THEN "TypeError"
    ELSE IF permission \in RolePermissions[usr] THEN "true" ELSE "false"
hasPermission(usr, permission) ==
    IF ~Truthy(usr) THEN "false"
    ELSE IF usr \notin DOMAIN RolePermissions THEN "TypeError"
    ELSE IF permission \in RolePermissions[usr] THEN "true" ELSE "false"

(* ---------------------------------------------------------------------- *)
(* ProtectedRoute and App                                                  *)
(* ---------------------------------------------------------------------- *)
\* The allowedRoles prop: absent (undefined), or an array of roles.
Absent == [given |-> FALSE, roles |-> {}]
Array(roles) == [given |-> TRUE, roles |-> roles]
AllowedRolesProps == {Absent} \cup {Array(roles) : roles \in SUBSET UserRoles}

\* What a component returns: nothing (null), its children, a <Navigate> to
\* a path, or a page of its own.
Returns(out, to) == [out |-> out, to |-> to]
Nothing == Returns("null", "none")
Children == Returns("children", "none")
Navigate(to) == Returns("Navigate", to)
Page(name) == Returns(name, "none")

\* allowedRoles && !allowedRoles.includes(role): an array is truthy, the
\* empty one too.
RoleRefusedWhenListed(allowedRoles, role) ==
    allowedRoles.given /\ role \in allowedRoles.roles
RoleRefused(allowedRoles, role) ==
    allowedRoles.given /\ role \notin allowedRoles.roles

\* if (!isAuthenticated || !user)
NotSignedInByFlagOnly(authenticated, usr) == ~authenticated
NotSignedIn(authenticated, usr) == ~authenticated \/ ~Truthy(usr)

\* const ProtectedRoute = ({ children, allowedRoles }) => ...
ProtectedRouteDecidingWhileLoading(loading, authenticated, usr, allowedRoles) ==
    IF NotSignedIn(authenticated, usr) THEN Navigate("/login")
    ELSE IF loading THEN Nothing
    ELSE IF RoleRefused(allowedRoles, usr) THEN Navigate("/dashboard")
    ELSE Children
ProtectedRoute(loading, authenticated, usr, allowedRoles) ==
    IF loading THEN Nothing
    ELSE IF NotSignedIn(authenticated, usr) THEN Navigate("/login")
    ELSE IF RoleRefused(allowedRoles, usr) THEN Navigate("/dashboard")
    ELSE Children

\* The routes of App nested under "/", each with the allowedRoles of the
\* ProtectedRoute around its page.
GuardedRoutesPerformanceForOperators ==
    [performance |-> Array({"devops", "management"}),
     alerts |-> Array({"devops", "management"}),
     users |-> Array({"management"})]
GuardedRoutes ==
    [performance |-> Array({"devops", "qa", "dev", "management"}),
     alerts |-> Array({"devops", "management"}),
     users |-> Array({"management"})]
OpenRoutes == {"dashboard", "system-health", "settings"}

\* The locations a browser can be at: the routes and one that matches none.
Paths == {"login", "index", "nowhere"} \cup OpenRoutes \cup DOMAIN GuardedRoutes

\* function App(): what is on screen at the location path.
App(loading, authenticated, usr, path) ==
    LET layout == ProtectedRoute(loading, authenticated, usr, Absent)
    IN  IF loading THEN Page("CircularProgress")
        ELSE IF path = "login"
             THEN IF authenticated THEN Navigate("/dashboard") ELSE Page("Login")
        ELSE IF path = "nowhere" THEN Page("NotFound")
        ELSE IF layout # Children THEN layout
        ELSE IF path = "index" THEN Navigate("/dashboard")
        ELSE IF path \in OpenRoutes THEN Children
        ELSE ProtectedRoute(loading, authenticated, usr, GuardedRoutes[path])

\* The component that rendered last: which (by), at which location, with
\* which allowedRoles, or asked about which permission, the state.auth it
\* read, and what it returned.
NoView ==
    [by |-> "none", path |-> "none", allowedRoles |-> Absent,
     permission |-> "none", loading |-> FALSE, authenticated |-> FALSE,
     user |-> Null, returned |-> Returns("none", "none")]

ViewOf(by) ==
    [NoView EXCEPT !.by = by, !.loading = isLoading,
                   !.authenticated = isAuthenticated, !.user = user]

(* ---------------------------------------------------------------------- *)
(* The dashboard slice (store/slices/dashboardSlice)                       *)
(* ---------------------------------------------------------------------- *)
\* const initialState: DashboardState.  The three lists are written only
\* together, by the fulfilled reducer: `lists` stands for them.
initialState ==
    [metrics |-> Null, lists |-> "empty", isLoading |-> FALSE, error |-> Null]

(* ---------------------------------------------------------------------- *)
(* guaranteed-solution.sh                                                  *)
(* ---------------------------------------------------------------------- *)
\* The run of the script: the command it is at (pc), its exit status once
\* it has exited, the solutions it has started, what it found on the
\* machine (node on the PATH, the package installer, a build directory left
\* in frontend/), and which steps of Solution 2 failed.
NotStarted ==
    [pc |-> "not started", status |-> "none", started |-> {},
     node |-> FALSE, installer |-> "none", buildDir |-> FALSE,
     failed |-> {}]

(* ---------------------------------------------------------------------- *)
(* A caller that restores the session twice                                *)
(* ---------------------------------------------------------------------- *)
\* What the caller has by now (phase: none, first, between, second, done):
\* storage when it made the first call, the body the server answered with,
\* and the result the first call gave.
NotHeld ==
    [phase |-> "none", storage |-> EmptyStorage, data |-> NoData,
     result |-> NoResult]

(* ---------------------------------------------------------------------- *)
(* State                                                                   *)
(* ---------------------------------------------------------------------- *)
\* A call: the method of authService, where it waits, the _retry flag of its
\* request config, its dispatches and refresh calls so far, the refresh
\* token its refresh call carries, and whether it has changed storage.
Idle ==
    [op |-> "none", pc |-> "idle", retry |-> FALSE, sent |-> 0,
     refreshes |-> 0, rt |-> Null, wrote |-> FALSE]

\* The last handler: the method of its call and what it did (kind), the
\* response it handled (on: of the request or of a refresh call; status;
\* data), the Authorization header of the request it dispatched, the token
\* the refresh issued, what the caller got (outcome, error, result), storage
\* before the handler and as authService left it (seen), and whether the
\* handler assigned window.location.href.
NoEvent ==
    [op |-> "none", kind |-> "none", on |-> "none",
     status |-> "none", data |-> NoData, auth |-> NoHeader, issued |-> Null,
     outcome |-> "none", error |-> "none", result |-> NoResult,
     before |-> EmptyStorage, seen |-> EmptyStorage, navigated |-> FALSE,
     retry |-> FALSE, sent |-> 0, refreshes |-> 0, wrote |-> FALSE]

EventOf(cur, kind) ==
    [NoEvent EXCEPT !.op = cur.op, !.kind = kind,
                    !.before = storage, !.seen = storage,
                    !.retry = cur.retry, !.sent = cur.sent,
                    !.refreshes = cur.refreshes, !.wrote = cur.wrote]

\* What a previous page of the application can have left in localStorage.
InitialStorages ==
    {EmptyStorage}
    \cup [token : AccessTokens, refreshToken : RefreshTokens \cup {"undefined"}]

Init ==
    /\ storage \in InitialStorages
    /\ href = "/"
    /\ isAuthenticated = FALSE
    /\ calls = EmptyBag
    /\ event = NoEvent
    /\ held = NotHeld
    /\ isLoading = FALSE
    /\ user = Null
    /\ view = NoView
    /\ trail = <<>>
    /\ dashboard = initialState
    /\ fetches = 0
    /\ script = NotStarted

\* A new call can start while fewer than MaxCalls are in flight.
Free == BagCardinality(calls) < MaxCalls

\* The calls in flight without call r, and with r replaced by cur.
Without(r) == calls (-) SetToBag({r})
Replaced(r, cur) == (calls (-) SetToBag({r})) (+) SetToBag({cur})

(* ---------------------------------------------------------------------- *)
(* Settling a call: the rest of the authService method after its await,    *)
(* then the thunk that called it                                           *)
(* ---------------------------------------------------------------------- *)
\* Storage as the authService method leaves it when its request has settled
\* with the given outcome, starting from storage s.
ServiceStorageStoringRestored(op, outcome, data, s) ==
    CASE op = "login" /\ outcome = "ok" -> LoginStorage(s, data)
      [] op = "logout" -> LogoutStorage(s, outcome)
      [] op = "checkAuthStatus" /\ outcome = "ok" ->
            setItem(s, "token", Field(data, "token"))
      [] OTHER -> s
ServiceStorage(op, outcome, data, s) ==
    CASE op = "login" /\ outcome = "ok" -> LoginStorage(s, data)
      [] op = "logout" -> LogoutStorage(s, outcome)
      [] OTHER -> s

ServiceResult(op, outcome, data, s) ==
    CASE op = "login" /\ outcome = "ok" -> LoginResult(data)
      [] op = "checkAuthStatus" /\ outcome = "ok" -> CheckAuthResult(s, data)
      [] OTHER -> NoResult

\* Call r settles.  cur is its record by now, e the event so far (the
\* response handled), s the storage the response interceptor left.
Settle(r, cur, e, outcome, error, s) ==
    LET s2 == ServiceStorage(cur.op, outcome, e.data, s)
    IN  /\ calls' = Without(r)
        /\ storage' = ThunkStorage(cur.op, outcome, s2)
        /\ isAuthenticated' = SessionAfter(cur.op, outcome, isAuthenticated)
        /\ event' = [e EXCEPT !.kind = "settle", !.outcome = outcome,
                              !.error = error, !.seen = s2,
                              !.result = ServiceResult(cur.op, outcome, e.data, s),
                              !.retry = cur.retry,
                              !.wrote = cur.wrote \/ s2 # storage]

(* ---------------------------------------------------------------------- *)
(* Starting a call                                                         *)
(* ---------------------------------------------------------------------- *)
\* apiClient sends the request of op: the request interceptor runs first.
Dispatch(op) ==
    LET cur == [Idle EXCEPT !.op = op, !.pc = "await", !.sent = 1]
    IN  /\ Free
        /\ calls' = calls (+) SetToBag({cur})
        /\ event' = [EventOf(cur, "dispatch") EXCEPT
                        !.auth = RequestInterceptor(NoHeader, storage)]
        /\ UNCHANGED <<storage, href, isAuthenticated>>

\* authService.login(credentials)
Login == Dispatch("login")

\* authService.logout()
Logout == Dispatch("logout")

\* Any other request through apiClient (changePassword, forgotPassword, ...)
Request == Dispatch("request")

\* App's effect on mount: dispatch(checkAuthStatus()).
RestoreSession ==
    /\ Free
    /\ IF HasStoredToken(storage)
       THEN Dispatch("checkAuthStatus")
       ELSE /\ event' = [EventOf([Idle EXCEPT !.op = "checkAuthStatus"], "settle")
                            EXCEPT !.outcome = "fail", !.error = "NotAuthenticated"]
            /\ isAuthenticated' = FALSE
            /\ UNCHANGED <<storage, href, calls>>

\* authService.refreshToken()
RefreshTokenSentWithoutToken ==
    /\ Free
    /\ LET refreshToken == getItem(storage, "refreshToken")
           cur == [Idle EXCEPT !.op = "refreshToken", !.pc = "refreshToken",
                               !.refreshes = 1, !.rt = refreshToken]
       IN  /\ event' = EventOf(cur, "refresh")
           /\ calls' = calls (+) SetToBag({cur})
    /\ UNCHANGED <<storage, href, isAuthenticated>>
RefreshToken ==
    /\ Free
    /\ LET refreshToken == getItem(storage, "refreshToken")
           cur == [Idle EXCEPT !.op = "refreshToken", !.pc = "refreshToken",
                               !.refreshes = 1, !.rt = refreshToken]
       IN  IF ~Truthy(refreshToken)
           THEN /\ event' = [EventOf([Idle EXCEPT !.op = "refreshToken"], "settle")
                                EXCEPT !.outcome = "fail",
                                       !.error = "No refresh token available"]
                /\ UNCHANGED calls
           ELSE /\ event' = EventOf(cur, "refresh")
                /\ calls' = calls (+) SetToBag({cur})
    /\ UNCHANGED <<storage, href, isAuthenticated>>

(* ---------------------------------------------------------------------- *)
(* Responses                                                               *)
(* ---------------------------------------------------------------------- *)
\* A 2xx response to the request of call c: the response interceptor passes
\* it on and the method continues.
ResponseOk(r) ==
    /\ r.pc = "await"
    /\ \E data \in OkBodies(r.op) :
          Settle(r, r,
                 [EventOf(r, "settle") EXCEPT
                     !.on = "request", !.status = "200", !.data = data],
                 "ok", "none", storage)
    /\ UNCHANGED href

\* An error (a status or no response) for the request of call c: the error
\* handler of the response interceptor.
ResponseError(r) ==
    /\ r.pc = "await"
    /\ \E status \in Statuses \ {"200"} :
          LET cur == r
              e == [EventOf(cur, "settle") EXCEPT !.on = "request", !.status = status]
              refreshToken == getItem(storage, "refreshToken")
              refreshing == [cur EXCEPT !.retry = TRUE, !.pc = "refresh",
                                        !.refreshes = @ + 1, !.rt = refreshToken]
          IN  IF ShouldRefresh(status, cur.retry)
              THEN IF Truthy(refreshToken) /\ cur.sent < MaxDispatch
                   THEN /\ calls' = Replaced(r, refreshing)
                        /\ event' = [EventOf(refreshing, "refresh") EXCEPT
                                        !.on = "request", !.status = status]
                        /\ UNCHANGED <<storage, isAuthenticated>>
                   ELSE Settle(r, [cur EXCEPT !.retry = TRUE], e, "fail", status, storage)
              ELSE Settle(r, cur, e, "fail", status, storage)
    /\ UNCHANGED href

\* /auth/refresh answers the interceptor's refresh call with a new token.
RefreshOk(r) ==
    /\ r.pc = "refresh"
    /\ RefreshAccepts(r.rt)
    /\ \E data \in TokenBodies :
          LET s == RefreshedStorage(storage, data)
              cur == [r EXCEPT !.pc = "await", !.sent = @ + 1, !.rt = Null,
                                      !.wrote = @ \/ s # storage]
          IN  /\ storage' = s
              /\ calls' = Replaced(r, cur)
              /\ event' = [EventOf(cur, "retry") EXCEPT
                              !.on = "refresh", !.status = "200", !.data = data,
                              !.issued = Field(data, "token"),
                              !.auth = RetryHeader(s, data), !.seen = s]
    /\ UNCHANGED <<href, isAuthenticated>>

\* The interceptor's refresh call fails (a status or no response): the catch
\* block, then the rejection with the original error.
RefreshErrorRefreshedAgain(r) ==
    /\ r.pc = "refresh"
    /\ \E status \in Statuses \ {"200"} :
          IF status = "401" /\ r.refreshes < MaxDispatch
          THEN LET cur == [r EXCEPT !.refreshes = @ + 1]
               IN  /\ calls' = Replaced(r, cur)
                   /\ event' = [EventOf(cur, "refresh") EXCEPT
                                   !.on = "refresh", !.status = status]
                   /\ UNCHANGED <<storage, href, isAuthenticated>>
          ELSE /\ href' = "/login"
               /\ Settle(r, r,
                         [EventOf(r, "settle") EXCEPT
                             !.on = "refresh", !.status = status, !.navigated = TRUE],
                         "fail", "401", RefreshFailedStorage(storage))
RefreshError(r) ==
    /\ r.pc = "refresh"
    /\ \E status \in Statuses \ {"200"} :
          /\ href' = "/login"
          /\ Settle(r, r,
                    [EventOf(r, "settle") EXCEPT
                        !.on = "refresh", !.status = status, !.navigated = TRUE],
                    "fail", "401", RefreshFailedStorage(storage))

\* /auth/refresh answers the refresh call of authService.refreshToken().
RefreshTokenOk(r) ==
    /\ r.pc = "refreshToken"
    /\ RefreshAccepts(r.rt)
    /\ \E data \in TokenBodies :
          LET s == RefreshTokenStorage(storage, data)
          IN  /\ storage' = s
              /\ event' = [EventOf(r, "settle") EXCEPT
                              !.on = "refresh", !.status = "200", !.data = data,
                              !.issued = Field(data, "token"),
                              !.outcome = "ok", !.seen = s,
                              !.result = RefreshTokenResult(r.rt, data),
                              !.wrote = s # storage]
    /\ calls' = Without(r)
    /\ UNCHANGED <<href, isAuthenticated>>

\* The refresh call of authService.refreshToken() fails: the error propagates.
RefreshTokenError(r) ==
    /\ r.pc = "refreshToken"
    /\ \E status \in Statuses \ {"200"} :
          event' = [EventOf(r, "settle") EXCEPT
                       !.on = "refresh", !.status = status,
                       !.outcome = "fail", !.error = status]
    /\ calls' = Without(r)
    /\ UNCHANGED <<storage, href, isAuthenticated>>

InFlight == BagToSet(calls)

\* The session client alone: nothing renders and no caller keeps a result.
ClientOnly == UNCHANGED <<held, isLoading, user, view, otherVars>>

Next ==
    \/ Login /\ ClientOnly
    \/ Logout /\ ClientOnly
    \/ Request /\ ClientOnly
    \/ RestoreSession /\ ClientOnly
    \/ RefreshToken /\ ClientOnly
    \/ \E r \in InFlight : ResponseOk(r) /\ ClientOnly
    \/ \E r \in InFlight : ResponseError(r) /\ ClientOnly
    \/ \E r \in InFlight : RefreshOk(r) /\ ClientOnly
    \/ \E r \in InFlight : RefreshError(r) /\ ClientOnly
    \/ \E r \in InFlight : RefreshTokenOk(r) /\ ClientOnly
    \/ \E r \in InFlight : RefreshTokenError(r) /\ ClientOnly

Spec == Init /\ [][Next]_vars

(* ---------------------------------------------------------------------- *)
(* Restoring the session twice in succession                               *)
(* ---------------------------------------------------------------------- *)
\* Until the caller starts, the client does as above.
Before == held.phase = "none" /\ Next

\* The first checkAuthStatus, made while nothing else is in flight and an
\* access token is stored.
FirstRestore ==
    /\ held.phase = "none"
    /\ calls = EmptyBag
    /\ HasStoredToken(storage)
    /\ RestoreSession
    /\ held' = [NotHeld EXCEPT !.phase = "first", !.storage = storage]
    /\ UNCHANGED <<uiVars, otherVars>>

\* The stored token is valid: the server answers the first call with 2xx.
FirstAnswer ==
    /\ held.phase = "first"
    /\ \E r \in InFlight : ResponseOk(r)
    /\ held' = [held EXCEPT !.phase = "between", !.data = event'.data,
                            !.result = event'.result]
    /\ UNCHANGED <<uiVars, otherVars>>

\* The second checkAuthStatus, right after the first has settled.
SecondRestore ==
    /\ held.phase = "between"
    /\ RestoreSession
    /\ held' = [held EXCEPT !.phase = IF calls' = EmptyBag THEN "done" ELSE "second"]
    /\ UNCHANGED <<uiVars, otherVars>>

\* The server has not changed: it answers as it answered the first call.
SecondAnswer ==
    /\ held.phase = "second"
    /\ \E r \in InFlight : ResponseOk(r) /\ event'.data = held.data
    /\ held' = [held EXCEPT !.phase = "done"]
    /\ UNCHANGED <<uiVars, otherVars>>

NextTwice ==
    \/ Before
    \/ FirstRestore
    \/ FirstAnswer
    \/ SecondRestore
    \/ SecondAnswer

SpecTwice == Init /\ [][NextTwice]_vars

(* ---------------------------------------------------------------------- *)
(* The components that read state.auth                                     *)
(* ---------------------------------------------------------------------- *)
\* A reducer of the auth slice changes state.auth: to any AuthState.
StoreChange ==
    /\ \E loading \in BOOLEAN, authenticated \in BOOLEAN, usr \in Users :
          /\ <<loading, authenticated, usr>> # <<isLoading, isAuthenticated, user>>
          /\ isLoading' = loading
          /\ isAuthenticated' = authenticated
          /\ user' = usr
    /\ UNCHANGED <<storage, href, calls, event, held, view, otherVars>>

\* A ProtectedRoute renders, with whatever allowedRoles it was given.
RenderProtectedRoute ==
    /\ \E allowedRoles \in AllowedRolesProps :
          view' = [ViewOf("ProtectedRoute") EXCEPT
                      !.allowedRoles = allowedRoles,
                      !.returned = ProtectedRoute(isLoading, isAuthenticated, user,
                                                  allowedRoles)]
    /\ UNCHANGED <<storage, href, isAuthenticated, calls, event, held, isLoading, user,
                   otherVars>>

\* App renders at some location.
RenderApp ==
    /\ \E path \in Paths :
          view' = [ViewOf("App") EXCEPT
                      !.path = path,
                      !.allowedRoles = IF path \in DOMAIN GuardedRoutes
                                       THEN GuardedRoutes[path] ELSE Absent,
                      !.returned = App(isLoading, isAuthenticated, user, path)]
    /\ UNCHANGED <<storage, href, isAuthenticated, calls, event, held, isLoading, user,
                   otherVars>>

\* Sidebar asks hasPermission about a permission.
RenderSidebar ==
    /\ \E permission \in Permissions :
          view' = [ViewOf("hasPermission") EXCEPT
                      !.permission = permission,
                      !.returned = Returns(hasPermission(user, permission), "none")]
    /\ UNCHANGED <<storage, href, isAuthenticated, calls, event, held, isLoading, user,
                   otherVars>>

NextUI ==
    \/ StoreChange
    \/ RenderProtectedRoute
    \/ RenderApp
    \/ RenderSidebar

\* The components alone: no call of the session client is made.
InitUI == Init /\ storage = EmptyStorage

SpecUI == InitUI /\ [][NextUI]_vars

(* ---------------------------------------------------------------------- *)
(* Navigation: the router follows the <Navigate> elements App returns      *)
(* ---------------------------------------------------------------------- *)
\* The location a <Navigate to=...> of App or ProtectedRoute leads to.
PathOf(to) ==
    IF to = "/login" THEN "login" ELSE IF to = "/dashboard" THEN "dashboard" ELSE "nowhere"

\* App as it renders at the location path.
AppAt(path) ==
    [ViewOf("App") EXCEPT
        !.path = path,
        !.allowedRoles = IF path \in DOMAIN GuardedRoutes
                         THEN GuardedRoutes[path] ELSE Absent,
        !.returned = App(isLoading, isAuthenticated, user, path)]

\* The user opens a location: a navigation starts there.
GoTo ==
    /\ \E path \in Paths :
          /\ trail' = <<path>>
          /\ view' = AppAt(path)
    /\ UNCHANGED <<storage, href, isAuthenticated, calls, event, held, isLoading, user,
                   dashboard, fetches, script>>

\* App returned a <Navigate replace>: the router moves to its target and
\* App renders there, reading the same state.auth.
FollowNavigate ==
    /\ trail # <<>>
    /\ view.by = "App" /\ view.returned.out = "Navigate"
    /\ <<view.loading, view.authenticated, view.user>>
          = <<isLoading, isAuthenticated, user>>
    /\ Len(trail) <= MaxRedirects
    /\ LET path == PathOf(view.returned.to)
       IN  /\ trail' = Append(trail, path)
           /\ view' = AppAt(path)
    /\ UNCHANGED <<storage, href, isAuthenticated, calls, event, held, isLoading, user,
                   dashboard, fetches, script>>

NextNav ==
    \/ StoreChange
    \/ GoTo
    \/ FollowNavigate

SpecNav == InitUI /\ [][NextNav]_vars

(* ---------------------------------------------------------------------- *)
(* The dashboard slice: its reducers and the fetchDashboardData thunk      *)
(* ---------------------------------------------------------------------- *)
\* What the thunk returns (its mock data), the payloads updateMetrics is
\* dispatched with, and the payloads of a rejected fetch: the message of
\* rejectWithValue, or undefined when the thunk was aborted.
MockData == "mock"
MetricsPayloads == {"m1", "m2", "m3"}
RejectedPayloads == {"Failed to fetch dashboard data", Undefined}

\* Nothing but the dashboard slice changes.
DashboardOnly ==
    UNCHANGED <<storage, href, isAuthenticated, calls, event, held, isLoading, user,
                view, trail, script>>

\* .addCase(fetchDashboardData.pending, ...)
pending(state) == [state EXCEPT !.isLoading = TRUE, !.error = Null]

\* .addCase(fetchDashboardData.fulfilled, ...)
fulfilled(state, payload) ==
    [state EXCEPT !.isLoading = FALSE, !.metrics = payload, !.lists = payload,
                  !.error = Null]

\* .addCase(fetchDashboardData.rejected, ...)
rejected(state, payload) == [state EXCEPT !.isLoading = FALSE, !.error = payload]

\* dispatch(fetchDashboardData()): the pending action is dispatched at once.
FetchPending ==
    /\ fetches < MaxFetches
    /\ fetches' = fetches + 1
    /\ dashboard' = pending(dashboard)
    /\ DashboardOnly

\* The payload creator of a fetch in flight returns.
FetchFulfilled ==
    /\ fetches > 0
    /\ fetches' = fetches - 1
    /\ dashboard' = fulfilled(dashboard, MockData)
    /\ DashboardOnly

\* A fetch in flight is rejected.
FetchRejected ==
    /\ fetches > 0
    /\ fetches' = fetches - 1
    /\ \E payload \in RejectedPayloads : dashboard' = rejected(dashboard, payload)
    /\ DashboardOnly

\* reducers.clearError
clearError ==
    /\ dashboard.error # Null
    /\ dashboard' = [dashboard EXCEPT !.error = Null]
    /\ UNCHANGED fetches
    /\ DashboardOnly

\* reducers.updateMetrics
updateMetrics ==
    /\ \E payload \in MetricsPayloads :
          /\ dashboard.metrics # payload
          /\ dashboard' = [dashboard EXCEPT !.metrics = payload]
    /\ UNCHANGED fetches
    /\ DashboardOnly

NextDashboard ==
    \/ FetchPending
    \/ FetchFulfilled
    \/ FetchRejected
    \/ clearError
    \/ updateMetrics

SpecDashboard == InitUI /\ [][NextDashboard]_vars

(* ---------------------------------------------------------------------- *)
(* guaranteed-solution.sh: one action per command that can fail.  The      *)
(* script runs under set -e: a command that fails outside the condition of *)
(* an if, and is not an earlier part of an && list, ends the script with   *)
(* that command's exit status.  The repository's directories and compose   *)
(* file are taken to be in place.                                          *)
(* ---------------------------------------------------------------------- *)
\* Exit statuses of a failing command, and of a command that is not found.
FailureStatuses == {"1", "2"}
NotFound == "127"

\* Nothing but the run of the script changes.
ScriptOnly ==
    UNCHANGED <<storage, href, isAuthenticated, calls, event, held, isLoading, user,
                view, trail, dashboard, fetches>>

At(pc) == script.pc = pc

\* The script ends with the given status.
Exit(run, status) == [run EXCEPT !.pc = "exited", !.status = status]

\* A command not guarded by an if fails with the given status (set -e).
Errexit(run, command, status) ==
    Exit([run EXCEPT !.failed = @ \cup {command}], status)

\* The script is started on some machine.
Run ==
    /\ At("not started")
    /\ \E node \in BOOLEAN, installer \in {"apt-get", "yum", "none"},
          buildDir \in BOOLEAN :
          script' = [script EXCEPT !.pc = "docker prune", !.node = node,
                                   !.installer = installer, !.buildDir = buildDir]
    /\ ScriptOnly

\* docker system prune, docker volume prune, docker builder prune
DockerPrune ==
    /\ At("docker prune")
    /\ \/ script' = [script EXCEPT !.pc = "build working", !.started = @ \cup {"1"}]
       \/ \E status \in FailureStatuses :
             script' = Errexit(script, "docker prune", status)
    /\ ScriptOnly

\* Solution 1: if docker build -f frontend/Dockerfile.working ...; then
BuildWorking ==
    /\ At("build working")
    /\ \/ script' = [script EXCEPT !.pc = "deploy"]
       \/ script' = [script EXCEPT !.pc = "command -v node",
                                   !.started = @ \cup {"2"},
                                   !.failed = @ \cup {"build working"}]
    /\ ScriptOnly

\* After a successful docker build of any solution: cp, sed -i,
\* docker-compose up -d, exit 0.
Deploy ==
    /\ At("deploy")
    /\ \/ script' = Exit(script, "0")
       \/ \E status \in FailureStatuses :
             script' = Errexit(script, "deploy", status)
    /\ ScriptOnly

\* Solution 2: if ! command -v node; then install it with apt-get or yum,
\* or exit 1.  A failing apt-get update is an earlier part of an && list.
InstallNode ==
    /\ At("command -v node")
    /\ IF script.node
       THEN script' = [script EXCEPT !.pc = "npm ci"]
       ELSE CASE script.installer = "apt-get" ->
                    \/ script' = [script EXCEPT !.pc = "npm ci", !.node = TRUE]
                    \/ script' = [script EXCEPT !.pc = "npm ci"]
                    \/ \E status \in FailureStatuses :
                          script' = Errexit(script, "install node", status)
              [] script.installer = "yum" ->
                    \/ script' = [script EXCEPT !.pc = "npm ci", !.node = TRUE]
                    \/ \E status \in FailureStatuses :
                          script' = Errexit(script, "install node", status)
              [] OTHER ->
                    script' = Exit([script EXCEPT !.failed = @ \cup {"install node"}], "1")
    /\ ScriptOnly

\* npm ci --silent --no-audit --no-fund
NpmCi ==
    /\ At("npm ci")
    /\ IF ~script.node
       THEN script' = Errexit(script, "npm ci", NotFound)
       ELSE \/ script' = [script EXCEPT !.pc = "npm run build"]
            \/ \E status \in FailureStatuses :
                  script' = Errexit(script, "npm ci", status)
    /\ ScriptOnly

\* npm run build; it may or may not leave a directory build/.
NpmRunBuild ==
    /\ At("npm run build")
    /\ \/ \E made \in BOOLEAN :
             script' = [script EXCEPT !.pc = "test -d build",
                                      !.buildDir = @ \/ made]
       \/ \E status \in FailureStatuses :
             script' = Errexit(script, "npm run build", status)
    /\ ScriptOnly

\* if [ -d "build" ]; then ... else "Local build failed. Trying Solution 3"
TestBuildDir ==
    /\ At("test -d build")
    /\ IF script.buildDir
       THEN script' = [script EXCEPT !.pc = "build prebuilt"]
       ELSE script' = [script EXCEPT !.pc = "minimal", !.started = @ \cup {"3"},
                                     !.failed = @ \cup {"test -d build"}]
    /\ ScriptOnly

\* if docker build -f frontend/Dockerfile.prebuilt ...; then
BuildPrebuilt ==
    /\ At("build prebuilt")
    /\ \/ script' = [script EXCEPT !.pc = "deploy"]
       \/ script' = [script EXCEPT !.pc = "minimal", !.started = @ \cup {"3"},
                                   !.failed = @ \cup {"build prebuilt"}]
    /\ ScriptOnly

\* Solution 3: mkdir -p build; cat > build/index.html
Minimal ==
    /\ At("minimal")
    /\ script' = [script EXCEPT !.pc = "build minimal", !.buildDir = TRUE]
    /\ ScriptOnly

\* if docker build -f frontend/Dockerfile.minimal ...; then ... else exit 1
BuildMinimal ==
    /\ At("build minimal")
    /\ \/ script' = [script EXCEPT !.pc = "deploy"]
       \/ script' = Exit([script EXCEPT !.failed = @ \cup {"build minimal"}], "1")
    /\ ScriptOnly

NextScript ==
    \/ Run
    \/ DockerPrune
    \/ BuildWorking
    \/ Deploy
    \/ InstallNode
    \/ NpmCi
    \/ NpmRunBuild
    \/ TestBuildDir
    \/ BuildPrebuilt
    \/ Minimal
    \/ BuildMinimal

SpecScript == InitUI /\ [][NextScript]_vars

(* ---------------------------------------------------------------------- *)
(* Properties of the session client                                        *)
(* ---------------------------------------------------------------------- *)
\* The handler that ran last settled a call made through apiClient because
\* the refresh call of the response interceptor failed.
RefreshFailedEvent ==
    event.kind = "settle" /\ event.on = "refresh" /\ event.op # "refreshToken"

\* C1: a request that gets a 401 while a refresh token is stored, and whose
\* refresh call succeeds, is dispatched again exactly once, with the access
\* token that refresh returned in its Authorization header, and the caller
\* gets the outcome of that second dispatch.
C1_RetryOnceWithNewToken ==
    /\ event.on = "refresh" /\ event.status = "200" /\ event.op # "refreshToken"
          => event.kind = "retry"
    /\ event.kind = "retry"
          => /\ event.sent = 2
             /\ event.refreshes = 1
             /\ event.issued \in AccessTokens
             /\ event.auth = event.issued
    /\ event.kind = "settle" /\ event.on = "request" /\ event.sent = 2
          => /\ event.refreshes = 1
             /\ event.outcome = "ok" <=> event.status = "200"
             /\ event.outcome = "fail" => event.error = event.status

\* A request was refreshed, dispatched again and succeeded.
C1_Witness ==
    /\ event.kind = "settle" /\ event.on = "request" /\ event.op = "request"
    /\ event.sent = 2 /\ event.refreshes = 1 /\ event.outcome = "ok"

\* C2: when the refresh call after a 401 fails, 'token' and 'refreshToken'
\* are both removed from localStorage, window.location.href is set to
\* /login, and the caller's request is rejected.
C2_FailedRefreshClearsSession ==
    RefreshFailedEvent
        => /\ event.seen = EmptyStorage
           /\ storage = EmptyStorage
           /\ event.navigated /\ href = "/login"
           /\ event.outcome = "fail"

\* A request's refresh call failed while both tokens were stored.
C2_Witness ==
    /\ RefreshFailedEvent /\ event.op = "request"
    /\ event.before.token \in AccessTokens
    /\ event.before.refreshToken \in RefreshTokens

\* C3: a request is dispatched at most twice and refreshed at most once; a
\* 401 for the second dispatch goes to the caller with no further refresh
\* and no further dispatch.
C3_OneRefreshTwoDispatches ==
    /\ \A r \in InFlight : r.sent <= 2 /\ r.refreshes <= 1
    /\ event.sent <= 2 /\ event.refreshes <= 1
    /\ event.on = "request" /\ event.status = "401" /\ event.sent = 2
          => event.kind = "settle" /\ event.outcome = "fail" /\ event.error = "401"

\* The second dispatch of a request got a 401.
C3_Witness ==
    /\ event.kind = "settle" /\ event.on = "request" /\ event.status = "401"
    /\ event.sent = 2 /\ event.refreshes = 1

\* C4: logout leaves neither 'token' nor 'refreshToken' in localStorage,
\* whether its request succeeds, gets an error status or gets no response.
C4_LogoutAlwaysClears ==
    event.kind = "settle" /\ event.op = "logout"
        => event.seen = EmptyStorage /\ storage = EmptyStorage

\* A logout whose request got no response, with both tokens stored.
C4_Witness ==
    /\ event.kind = "settle" /\ event.op = "logout"
    /\ event.on = "request" /\ event.status = "network"
    /\ event.before.token \in AccessTokens
    /\ event.before.refreshToken \in RefreshTokens

\* C5: after a login answered in the documented shape {user, token,
\* refresh_token}, localStorage holds the access token and the refresh token
\* of the response, and the caller gets the same two values.
C5_LoginStoresIssuedTokens ==
    /\ event.kind = "settle" /\ event.op = "login" /\ event.outcome = "ok"
    /\ event.data.shape = "documented"
    => /\ event.seen = [token |-> event.data.token,
                        refreshToken |-> event.data.refresh_token]
       /\ event.result = [token |-> event.data.token,
                          refreshToken |-> event.data.refresh_token]

\* C6: a login the server rejects with an error status leaves localStorage
\* as it was: no step of the call has changed it.
C6_RejectedLoginKeepsStorage ==
    /\ event.kind = "settle" /\ event.op = "login" /\ event.outcome = "fail"
    /\ event.error \in {"401", "500"}
    => ~event.wrote

\* C7: localStorage holds both an access token and a refresh token, or
\* neither.
C7_StorageNeverPartial ==
    (storage.token = Null) <=> (storage.refreshToken = Null)

C10_TransportFailureKeepsStorage ==
    /\ event.status = "network"
    /\ event.op = "login" \/ event.on = "refresh"
    => event.seen = event.before /\ event.outcome = "fail"

\* The handler that ran last handled a successful refresh, of the response
\* interceptor or of authService.refreshToken().
RefreshSucceededEvent ==
    \/ event.kind = "retry"
    \/ event.kind = "settle" /\ event.op = "refreshToken" /\ event.outcome = "ok"

\* C11: a successful refresh, through authService.refreshToken() or through
\* the response interceptor, writes the new access token and leaves the
\* stored refresh token as it was.
C11_RefreshKeepsRefreshToken ==
    RefreshSucceededEvent
        => /\ event.seen.refreshToken = event.before.refreshToken
           /\ event.seen.token = event.issued
           /\ storage = event.seen

\* authService.refreshToken() replaced a stored access token by another one.
C11_Witness ==
    /\ event.kind = "settle" /\ event.op = "refreshToken" /\ event.outcome = "ok"
    /\ event.before.refreshToken \in RefreshTokens
    /\ event.before.token \in AccessTokens
    /\ event.before.token # event.issued

\* C12: a request dispatched through apiClient carries the access token that
\* localStorage holds at the moment of the dispatch, and no Authorization
\* header when it holds none.
C12_BearerIsStoredToken ==
    event.kind \in {"dispatch", "retry"}
        => IF storage.token = Null
           THEN event.auth = NoHeader
           ELSE event.auth = storage.token

\* A request was dispatched while an access token was stored.
C12_Witness ==
    event.kind = "dispatch" /\ event.op = "request" /\ event.auth \in AccessTokens

\* C13: refreshes are not coalesced.  Every request whose first dispatch
\* gets a 401 while a refresh token is stored makes a refresh call of its
\* own, whatever the other calls in flight are doing, and the stored access
\* token is the one the refresh handled last has written.
C13_RefreshesNotCoalesced ==
    /\ event.on = "request" /\ event.status = "401" /\ event.sent = 1
       /\ Truthy(event.before.refreshToken)
          => event.kind = "refresh" /\ event.refreshes = 1
    /\ \A r \in InFlight : r.pc = "refresh" => r.refreshes = 1 /\ Truthy(r.rt)
    /\ event.kind = "retry" => storage.token = event.issued

\* Two requests were refreshed one after the other, and the second refresh
\* has overwritten the token the first one stored.
C13_Witness ==
    /\ BagCardinality(calls) = 2
    /\ \A r \in InFlight : r.op = "request" /\ r.pc = "await" /\ r.sent = 2
    /\ event.kind = "retry"
    /\ event.before.token # event.issued

\* C14: checkAuthStatus called twice in succession, with a stored token the
\* server accepts and a server that answers the same both times, leaves
\* localStorage as it was before the first call and gives the second caller
\* the result {user, token, refreshToken} the first caller got.
C14_RestoreTwiceSameResult ==
    /\ held.phase \in {"between", "second", "done"} => storage = held.storage
    /\ held.phase = "done"
          => /\ event.op = "checkAuthStatus" /\ event.outcome = "ok"
             /\ event.data = held.data
             /\ event.result = held.result

\* The second call has settled; the token the server names differs from the
\* stored one, so storing it would have shown.
C14_Witness ==
    /\ held.phase = "done"
    /\ held.storage.token \in AccessTokens
    /\ held.result.token \in AccessTokens
    /\ held.result.token # held.storage.token
    /\ held.result.refreshToken \in RefreshTokens

(* ---------------------------------------------------------------------- *)
(* Properties of the route guard and of the permission lookup              *)
(* ---------------------------------------------------------------------- *)
\* The ProtectedRoute that rendered last read a state.auth that was not
\* loading and was signed in (authenticated, with a user).
GuardDecided == view.by = "ProtectedRoute" /\ ~view.loading
SignedIn == view.authenticated /\ view.user # Null

\* C15: once loading has finished, a ProtectedRoute that reads
\* isAuthenticated false, or no user, returns a redirect to /login whatever
\* its allowedRoles; it returns its children only to a signed-in session,
\* and so does App for every route nested under "/".
C15_NotSignedInGoesToLogin ==
    /\ GuardDecided /\ ~SignedIn => view.returned = Navigate("/login")
    /\ view.by = "ProtectedRoute" /\ view.returned = Children => SignedIn
    /\ view.by = "App" /\ ~view.loading /\ ~SignedIn
          /\ view.path \notin {"login", "nowhere"}
          => view.returned = Navigate("/login")

\* The flag says authenticated but there is no user, and a list is given.
C15_Witness ==
    /\ GuardDecided
    /\ view.authenticated /\ view.user = Null
    /\ view.allowedRoles = Array({"management"})
    /\ view.returned = Navigate("/login")

\* C16: a ProtectedRoute given allowedRoles that do not include the role of
\* the signed-in user returns a redirect to /dashboard, never its children;
\* so does App at a location whose route is restricted to other roles, as
\* at "users" (management only) for a devops user.
C16_OtherRoleGoesToDashboard ==
    /\ GuardDecided /\ SignedIn /\ view.allowedRoles.given
          /\ view.user \notin view.allowedRoles.roles
          => view.returned = Navigate("/dashboard")
    /\ view.by = "App" /\ ~view.loading /\ SignedIn
          /\ view.path \in DOMAIN GuardedRoutes
          /\ view.user \notin GuardedRoutes[view.path].roles
          => view.returned = Navigate("/dashboard")
    /\ view.by = "App" /\ ~view.loading /\ SignedIn
          /\ view.path = "users" /\ view.user = "devops"
          => view.returned = Navigate("/dashboard")

\* A devops user at the location of the users page.
C16_Witness ==
    /\ view.by = "App" /\ ~view.loading /\ SignedIn
    /\ view.path = "users" /\ view.user = "devops"
    /\ view.allowedRoles = Array({"management"})
    /\ view.returned = Navigate("/dashboard")

\* C17: a ProtectedRoute whose allowedRoles is absent or the empty list
\* returns its children, and no redirect, to a signed-in user of each of
\* the five roles.
C17_NoRolesListedAdmitsAll ==
    GuardDecided /\ SignedIn /\ view.user \in UserRoles
        /\ (~view.allowedRoles.given \/ view.allowedRoles.roles = {})
        => view.returned = Children

\* C18: a ProtectedRoute that reads isLoading true returns nothing, no
\* redirect and no children, whatever else it reads and is given; App then
\* shows only the progress indicator.  A redirect or children are returned
\* only by an evaluation that reads isLoading false.
C18_NoDecisionWhileLoading ==
    /\ view.by = "ProtectedRoute" /\ view.loading => view.returned = Nothing
    /\ view.by = "ProtectedRoute" /\ view.returned # Nothing => ~view.loading
    /\ view.by = "App" /\ view.loading => view.returned = Page("CircularProgress")

\* Loading, with a state that would otherwise be sent to /login.
C18_Witness ==
    /\ view.by = "ProtectedRoute" /\ view.loading
    /\ ~view.authenticated /\ view.user = Null
    /\ view.allowedRoles = Array({"management"})
    /\ view.returned = Nothing

\* C19: for a user whose role has no entry in RolePermissions, hasPermission
\* returns false for every permission and does not throw.
C19_UnmappedRoleFailsClosed ==
    view.by = "hasPermission" /\ view.user \in UnmappedRoles
        => view.returned.out = "false"

\* C20: hasPermission returns false for every permission when there is no
\* user, and for a user it returns true exactly when the permission is in
\* the RolePermissions entry of the user's role.
C20_PermissionIsTableMembership ==
    view.by = "hasPermission"
        => /\ view.user = Null => view.returned.out = "false"
           /\ view.user # Null
                 => (view.returned.out = "true"
                        <=> /\ view.user \in DOMAIN RolePermissions
                            /\ view.permission \in RolePermissions[view.user])
           /\ view.user \in UserRoles => view.returned.out \in {"true", "false"}
           /\ view.user = "other" /\ view.permission = "performance:read"
                 => view.returned.out = "false"
           /\ view.user = "devops" /\ view.permission = "alerts:write"
                 => view.returned.out = "true"

\* No user, asked about a permission every role has.
C20_Witness ==
    /\ view.by = "hasPermission"
    /\ view.user = Null
    /\ view.permission = "dashboard:read"
    /\ view.returned.out = "false"

\* C21: for each of the five roles and each of the six pages, hasPermission
\* grants the role the page's ':read' permission exactly when the table of
\* the project summary does not mark the page as denied for the role.
C21_ReadPermissionsAsDocumented ==
    /\ \A role \in UserRoles : \A item \in menuItems :
          item.permission \in RolePermissions[role]
              <=> DocumentedAccess[role][item.path] # "denied"
    /\ view.by = "hasPermission" /\ view.user \in UserRoles
          /\ view.permission \in {item.permission : item \in menuItems}
          => (view.returned.out = "true"
                 <=> DocumentedAccess[view.user][ItemOf(view.permission).path] # "denied")

\* A user of role other is refused the settings page, as documented.
C21_Witness ==
    /\ view.by = "hasPermission"
    /\ view.user = "other"
    /\ view.permission = "settings:read"
    /\ view.returned.out = "false"

\* App rendered last, at the page of a menu item, for a signed-in user of
\* one of the five roles, with loading finished.
PageRequested ==
    /\ view.by = "App" /\ ~view.loading /\ SignedIn
    /\ view.user \in UserRoles
    /\ view.path \in {item.path : item \in menuItems}

\* C22: a signed-in user of a role gets a page rendered by going to its
\* path exactly when the table of the project summary gives the role access
\* to the page.
C22_RoutesAsDocumented ==
    PageRequested
        => (view.returned = Children
               <=> DocumentedAccess[view.user][view.path] # "denied")

\* C28: whenever the sidebar shows a menu item to a user (hasPermission of
\* the item's permission is true), App renders the item's page for the same
\* signed-in user, with no redirect.
C28_ShownItemsAreReachable ==
    /\ view.by = "App" /\ ~view.loading /\ SignedIn
          => \A item \in menuItems :
                view.path = item.path
                    /\ hasPermission(view.user, item.permission) = "true"
                    => view.returned = Children
    /\ \A role \in UserRoles : \A item \in menuItems :
          hasPermission(role, item.permission) = "true"
              => App(FALSE, TRUE, role, item.path) = Children

\* A qa user at the performance page, whose item the sidebar shows.
C28_Witness ==
    /\ view.by = "App" /\ ~view.loading /\ SignedIn
    /\ view.user = "qa" /\ view.path = "performance"
    /\ hasPermission(view.user, "performance:read") = "true"
    /\ view.returned = Children

(* ---------------------------------------------------------------------- *)
(* Further properties of the session client                                *)
(* ---------------------------------------------------------------------- *)
\* The handler that ran last completed a logout; this step completes a
\* successful login.
LogoutCompleted == event.kind = "settle" /\ event.op = "logout"
LoginSucceeds ==
    event'.kind = "settle" /\ event'.op = "login" /\ event'.outcome = "ok"

\* C23: once logout has completed, localStorage holds neither 'token' nor
\* 'refreshToken' until a login succeeds, whatever other calls were in
\* flight when it completed: the handler that runs next, unless it is that
\* login, leaves both items absent.
C23_LoggedOutStaysCleared ==
    [][LogoutCompleted /\ ~LoginSucceeds
          => storage'.token = Null /\ storage'.refreshToken = Null]_vars

\* C24: a request that gets a 401 while no refresh token is stored is
\* rejected only after the stored access token has been removed and
\* window.location.href has been set to /login, as after a failed refresh.
C24_NoRefreshTokenClearsSession ==
    /\ event.kind = "settle" /\ event.op = "request"
       /\ event.on = "request" /\ event.status = "401" /\ event.sent = 1
       /\ ~Truthy(event.before.refreshToken)
          => /\ event.outcome = "fail"
             /\ storage.token = Null
             /\ event.navigated
             /\ href = "/login"

\* The handler that ran last was a call of authService.refreshToken()
\* itself (not the answer to its request), made with no refresh token stored.
RefreshTokenCalledWithoutToken ==
    /\ event.op = "refreshToken" /\ event.on = "none"
    /\ ~Truthy(event.before.refreshToken)

\* C25: authService.refreshToken() called while no refresh token is stored
\* fails with 'No refresh token available', sends no request and leaves
\* localStorage as it was.
C25_RefreshTokenNeedsStoredToken ==
    /\ RefreshTokenCalledWithoutToken
          => /\ event.kind = "settle" /\ event.outcome = "fail"
             /\ event.error = "No refresh token available"
             /\ event.refreshes = 0 /\ event.sent = 0
             /\ storage = event.before
    /\ \A r \in InFlight : r.pc = "refreshToken" => Truthy(r.rt)

\* An access token is stored, but no refresh token, when the call is made.
C25_Witness ==
    /\ RefreshTokenCalledWithoutToken
    /\ event.before.token \in AccessTokens
    /\ event.error = "No refresh token available"

\* C27: a failure answered by /auth/refresh, a 401 included, makes no
\* further refresh call: it settles the call that made the refresh.  So a
\* request makes at most one refresh call (on its first 401), a call of
\* refreshToken() exactly one, and no other call any.
C27_RefreshNeverRefreshed ==
    /\ event.on = "refresh" /\ event.status # "200"
          => event.kind = "settle" /\ event.outcome = "fail" /\ event.refreshes = 1
    /\ event.refreshes <= 1
    /\ event.refreshes = 1 /\ event.op # "refreshToken" => event.retry
    /\ \A r \in InFlight :
          /\ r.refreshes <= 1
          /\ r.refreshes = 1 /\ r.op # "refreshToken" => r.retry

\* /auth/refresh answered the refresh call of a request with a 401.
C27_Witness ==
    /\ event.on = "refresh" /\ event.status = "401"
    /\ event.op = "request"
    /\ event.kind = "settle" /\ event.refreshes = 1

(* ---------------------------------------------------------------------- *)
(* Properties of navigation                                                *)
(* ---------------------------------------------------------------------- *)
\* C26: in every state.auth with loading finished and from every starting
\* location, the redirects of the /login route and of the route guards end
\* at a rendered page: no location is come to twice in one navigation, so
\* there is no cycle between /login and /dashboard.
C26_NavigationSettles ==
    view.by = "App" /\ ~view.loading
        => \A i, j \in 1..Len(trail) : i # j => trail[i] # trail[j]

(* ---------------------------------------------------------------------- *)
(* Properties of the dashboard slice                                       *)
(* ---------------------------------------------------------------------- *)
\* C29: state.dashboard.isLoading is true exactly while at least one
\* fetchDashboardData is in flight, however overlapping fetches interleave,
\* and so is false once the last of them is fulfilled or rejected.
C29_LoadingWhileFetching == dashboard.isLoading <=> fetches > 0

(* ---------------------------------------------------------------------- *)
(* Properties of guaranteed-solution.sh                                    *)
(* ---------------------------------------------------------------------- *)
\* The steps of Solution 2's local build and pre-built image.
LocalBuildSteps == {"npm ci", "npm run build", "test -d build", "build prebuilt"}

\* C30: when the Docker build of Solution 1 has failed and a step of
\* Solution 2 (npm ci, npm run build, the pre-built Docker build) has
\* failed, the script has gone on to Solution 3 by the time it exits; and
\* it exits with status 1 only when the Docker build of Solution 3 failed
\* or Node.js could not be installed.
C30_FallsThroughToMinimal ==
    At("exited") /\ "build working" \in script.failed
        => /\ script.failed \cap LocalBuildSteps # {} => "3" \in script.started
           /\ script.status = "1"
                 => script.failed \cap {"build minimal", "install node"} # {}

====
